---- MODULE Spec2Model ----
(***************************************************************************)
(* Shelley's Ranch (src/sketch.js): the per-frame simulation of a person   *)
(* herding cows into a fenced enclosure.                                   *)
(*                                                                         *)
(* Units.  Positions and sizes are pixels, velocities pixels per second,   *)
(* as in the source.  Time is counted in nominal frames: one time unit is  *)
(* 1/FrameRate second, so a dt of 3 is 0.1 s and v.mult(dt) is             *)
(* v * dt / FrameRate.  Every dt of the model makes that division exact.   *)
(* Numbers that JavaScript can produce and an integer cannot hold          *)
(* (Infinity, NaN) are tagged records, see Finite, Infinity, NaN.          *)
(***************************************************************************)
EXTENDS Integers, Sequences, FiniteSets, TLC

\* ------------------------------------------------------------ bounds

\* Frames (calls of tick with a valid dt) explored in one run.
MaxTicks == 2
\* Random rolls of Cow._tickNormal that manifest (roll < probability) in one run.
MaxRolls == 2
\* Cows whose rolls manifest in one run.
MaxRollers == 1
\* Frames of one run in which an arrow key is held.  A run either moves the
\* person or has rolls manifest, not both: moves and rolls meet only through the
\* range test of keyTyped and the win test, which each kind of run reaches.
MaxMoves == 2

\* ------------------------------------------------- the host (p5.js)

\* windowWidth / windowHeight: the canvas created by setup().
Width == 600
Height == 600

\* "No value": null / undefined.
None == [none |-> TRUE]

\* JavaScript numbers: a finite number n, Infinity, NaN.
Finite(n) == [kind |-> "finite", val |-> n]
Infinity == [kind |-> "infinity", val |-> 0]
NaN == [kind |-> "nan", val |-> 0]

\* ------------------------------------------------------- MathHelper

Vec(a, b) == [x |-> a, y |-> b]
VECTOR_ZERO == Vec(0, 0)
VECTOR_ONE == Vec(1, 1)
VECTOR_LEFT == Vec(-1, 0)
VECTOR_RIGHT == Vec(1, 0)
VECTOR_UP == Vec(0, -1)
VECTOR_DOWN == Vec(0, 1)

\* p5.Vector add, sub, mult by an integer scalar.
Add(a, b) == Vec(a.x + b.x, a.y + b.y)
Sub(a, b) == Vec(a.x - b.x, a.y - b.y)
Mult(v, k) == Vec(v.x * k, v.y * k)

Abs(n) == IF n < 0 THEN -n ELSE n

\* p5.Vector mag(): sqrt(x^2 + y^2), here its integer part (exact for the
\* axis-aligned velocities the program produces).
Mag(v) == IF v.y = 0 THEN Abs(v.x) ELSE IF v.x = 0 THEN Abs(v.y) ELSE
          CHOOSE m \in 0..(Abs(v.x) + Abs(v.y)) :
            m * m <= v.x * v.x + v.y * v.y /\ (m + 1) * (m + 1) > v.x * v.x + v.y * v.y

\* p5.Vector dist() compared with a threshold: dist(a, b) < r.
\* Variant of the range test that takes a distance of exactly r as in range.
DistLess_Inclusive(a, b, r) ==
    (a.x - b.x) * (a.x - b.x) + (a.y - b.y) * (a.y - b.y) <= r * r

DistLess(a, b, r) == (a.x - b.x) * (a.x - b.x) + (a.y - b.y) * (a.y - b.y) < r * r

\* MathHelper.positionInBounds: strictly inside the rectangle centred at
\* boundsPosition with full size boundsSize (both sides doubled: size / 2
\* need not be an integer).
positionInBounds(position, boundsPosition, boundsSize) ==
    /\ 2 * position.x > 2 * boundsPosition.x - boundsSize.x
    /\ 2 * position.x < 2 * boundsPosition.x + boundsSize.x
    /\ 2 * position.y > 2 * boundsPosition.y - boundsSize.y
    /\ 2 * position.y < 2 * boundsPosition.y + boundsSize.y

\* ------------------------------------------------ program constants

\* GameManager.preload
FrameRate == 30
EdgeWidth == 80
CowRange == 50
DescriptionInitial == "Grazing time is over! ..."
DescriptionInitialFontSize == 18
DescriptionSuccess == "Yay, you've brought all the cows home!"
DescriptionSuccessFontSize == 24
\* GameManager.setup: Array.from({ length: 3 }, ...), and the loop of 10 ticks
NumCows == 3
SetupIterations == 10
Cows == 1..NumCows

\* Cow.preload
CowImageCount == 4
CowTargetPadding == 40
CowNormalSpeed == 20
CowTargetSpeed == 40
\* Person.preload
PersonImageCount == 3
PersonSpeed == 30
\* _distanceFromFrame = 2.5 = DistancePerFrameNum / DistancePerFrameDen
DistancePerFrameNum == 5
DistancePerFrameDen == 2

\* Fence.preload
FenceSize == Mult(VECTOR_ONE, 400)
FenceEdgeWidth == 100
FenceOpeningSize == Vec(100, FenceEdgeWidth)

\* v.mult(dt) with dt in time units of 1/FrameRate s.
Scale(v, dt) == Vec((v.x * dt) \div FrameRate, (v.y * dt) \div FrameRate)

\* ------------------------------------------------------------ state

VARIABLES
    title,                 \* GameManager._title: a plain Sprite
    fence,                 \* GameManager._fence
    person,                \* GameManager._person
    cows,                  \* GameManager._cows, by creation order 1..NumCows
    followingCow,          \* GameManager._followingCow: 0 (none) or a cow index
    descriptionText,       \* GameManager._descriptionText
    descriptionFontSize,   \* GameManager._descriptionFontSize
    setupLeft,             \* calls of tick that setup() has still to make
    ticks,                 \* valid frames so far (bounded by MaxTicks)
    rolls,                 \* manifested random rolls so far (bounded by MaxRolls)
    rollers,               \* the cows whose rolls manifested so far (bounded by MaxRollers)
    moves,                 \* frames with an arrow key held so far (bounded by MaxMoves)
    wonBefore,             \* history: some valid tick ended with no cow outside the fence bound
    last                   \* history: the last call, its inputs and its intermediate values

game == <<title, fence, person, cows, followingCow, descriptionText, descriptionFontSize>>
vars == <<title, fence, person, cows, followingCow, descriptionText, descriptionFontSize, setupLeft, ticks, rolls, rollers, moves, wonBefore, last>>

\* ----------------------------------------------------------- Sprite

\* Sprite.tick: position += velocity * dt.
SpriteTick(s, dt) == [s EXCEPT !.position = Add(s.position, Scale(s.velocity, dt))]

\* Sprite.setVelocity / Sprite.setPosition
setVelocity(s, v) == [s EXCEPT !.velocity = v]
setPosition(s, p) == [s EXCEPT !.position = p]

\* --------------------------------------------------- AnimatingSprite

\* An image of a direction's sequence: imageLeftArray[i], ...
Image(d, i) == [dir |-> d, idx |-> i]

\* AnimatingSprite._getImage: the sequence by the sign of velocity.x, then of
\* velocity.y; with no sequence (velocity zero) the last image stays.
GetImage(s, count) ==
    LET dir == IF s.velocity.x < 0 THEN "left"
               ELSE IF s.velocity.x > 0 THEN "right"
               ELSE IF s.velocity.y < 0 THEN "up"
               ELSE IF s.velocity.y > 0 THEN "down"
               ELSE "none"
        \* floor(elapsedTime * mag / distancePerFrame), elapsedTime in 1/FrameRate s
        frameCount == (s.elapsedTime * Mag(s.velocity) * DistancePerFrameDen)
                         \div (FrameRate * DistancePerFrameNum)
    IN  IF dir = "none" THEN s.lastImage ELSE Image(dir, frameCount % count)

\* Variant of AnimatingSprite.tick that takes the image before it advances the
\* elapsed time.
AnimatingTick_ImageFirst(s, dt, count) ==
    LET img == GetImage(s, count)
        s2 == [s EXCEPT !.lastImage = img, !.image = img, !.elapsedTime = s.elapsedTime + dt]
    IN  SpriteTick(s2, dt)

\* AnimatingSprite.tick: elapsed time, image, then Sprite.tick.
AnimatingTick(s, dt, count) ==
    LET s1 == [s EXCEPT !.elapsedTime = s.elapsedTime + dt]
        img == GetImage(s1, count)
        s2 == [s1 EXCEPT !.lastImage = img, !.image = img]
    IN  SpriteTick(s2, dt)

\* -------------------------------------------------------------- Cow

\* Variant of _tickTarget without the final else: within the padding the cow
\* keeps the velocity it has.
TickTarget_NeverStops(c) ==
    IF c.position.x > c.targetPosition.x + 40
    THEN [c EXCEPT !.velocity = Mult(VECTOR_LEFT, CowTargetSpeed)]
    ELSE IF c.position.x < c.targetPosition.x - CowTargetPadding
    THEN [c EXCEPT !.velocity = Mult(VECTOR_RIGHT, CowTargetSpeed)]
    ELSE IF c.position.y > c.targetPosition.y + CowTargetPadding
    THEN [c EXCEPT !.velocity = Mult(VECTOR_UP, CowTargetSpeed)]
    ELSE IF c.position.y < c.targetPosition.y - CowTargetPadding
    THEN [c EXCEPT !.velocity = Mult(VECTOR_DOWN, CowTargetSpeed)]
    ELSE c

\* Variant of _tickTarget that heads for the target on both axes at once.
TickTarget_BothAxes(c) ==
    LET vx == IF c.position.x > c.targetPosition.x + 40 THEN -1
              ELSE IF c.position.x < c.targetPosition.x - CowTargetPadding THEN 1 ELSE 0
        vy == IF c.position.y > c.targetPosition.y + CowTargetPadding THEN -1
              ELSE IF c.position.y < c.targetPosition.y - CowTargetPadding THEN 1 ELSE 0
    IN  [c EXCEPT !.velocity = Mult(Vec(vx, vy), CowTargetSpeed)]

\* Variant of _tickTarget that compares on y before x.
TickTarget_YFirst(c) ==
    IF c.position.y > c.targetPosition.y + CowTargetPadding
    THEN [c EXCEPT !.velocity = Mult(VECTOR_UP, CowTargetSpeed)]
    ELSE IF c.position.y < c.targetPosition.y - CowTargetPadding
    THEN [c EXCEPT !.velocity = Mult(VECTOR_DOWN, CowTargetSpeed)]
    ELSE IF c.position.x > c.targetPosition.x + 40
    THEN [c EXCEPT !.velocity = Mult(VECTOR_LEFT, CowTargetSpeed)]
    ELSE IF c.position.x < c.targetPosition.x - CowTargetPadding
    THEN [c EXCEPT !.velocity = Mult(VECTOR_RIGHT, CowTargetSpeed)]
    ELSE [c EXCEPT !.velocity = VECTOR_ZERO]

\* Cow._tickTarget: toward the target, x before y, one axis at a time.
TickTarget(c) ==
    IF c.position.x > c.targetPosition.x + 40
    THEN [c EXCEPT !.velocity = Mult(VECTOR_LEFT, CowTargetSpeed)]
    ELSE IF c.position.x < c.targetPosition.x - CowTargetPadding
    THEN [c EXCEPT !.velocity = Mult(VECTOR_RIGHT, CowTargetSpeed)]
    ELSE IF c.position.y > c.targetPosition.y + CowTargetPadding
    THEN [c EXCEPT !.velocity = Mult(VECTOR_UP, CowTargetSpeed)]
    ELSE IF c.position.y < c.targetPosition.y - CowTargetPadding
    THEN [c EXCEPT !.velocity = Mult(VECTOR_DOWN, CowTargetSpeed)]
    ELSE [c EXCEPT !.velocity = VECTOR_ZERO]

\* Variant of _tickNormal in which a moving cow that rolls turns round.
TickNormal_TurnsRound(c, hit, dir) ==
    IF hit
    THEN IF Mag(c.velocity) > 0
         THEN [c EXCEPT !.velocity = Mult(c.velocity, -1)]
         ELSE [c EXCEPT !.velocity = Mult(dir, CowNormalSpeed)]
    ELSE c

\* Cow._tickNormal: hit is "roll < probability", dir the direction random([...])
\* draws when the cow is stopped.
TickNormal(c, hit, dir) ==
    IF hit
    THEN IF Mag(c.velocity) > 0
         THEN [c EXCEPT !.velocity = VECTOR_ZERO]
         ELSE [c EXCEPT !.velocity = Mult(dir, CowNormalSpeed)]
    ELSE c

\* Cow.tick: the behaviour by the presence of a target, then AnimatingSprite.tick.
CowTick(c, dt, hit, dir) ==
    LET c1 == IF c.targetPosition # None THEN TickTarget(c) ELSE TickNormal(c, hit, dir)
    IN  AnimatingTick(c1, dt, CowImageCount)

\* Cow.setTargetPosition / Cow.unsetTargetPosition
setTargetPosition(c, p) == [c EXCEPT !.targetPosition = p]
unsetTargetPosition(c) == [c EXCEPT !.targetPosition = None]

\* ----------------------------------------------------------- Person

\* Person.setControlledDirection
setControlledDirection(p, direction) == [p EXCEPT !.velocity = Mult(direction, PersonSpeed)]

\* ------------------------------------------------------------ Fence

\* Variant of isOverlapping without the opening: the ring is closed.
isOverlapping_NoOpening(f, position) ==
    /\ positionInBounds(position, f.position, Add(f.size, Mult(VECTOR_ONE, FenceEdgeWidth \div 2)))
    /\ ~positionInBounds(position, f.position, Sub(f.size, Mult(VECTOR_ONE, FenceEdgeWidth \div 2)))

\* Fence.isOverlapping: inside the outer bound, not inside the inner bound, not
\* inside the opening.
isOverlapping(f, position) ==
    LET outerFenceBoundSize == Add(f.size, Mult(VECTOR_ONE, FenceEdgeWidth \div 2))
        innerFenceBoundSize == Sub(f.size, Mult(VECTOR_ONE, FenceEdgeWidth \div 2))
        openingPosition == Sub(f.position, Vec(0, f.size.y \div 2))
        isInOuterFenceBound == positionInBounds(position, f.position, outerFenceBoundSize)
        isInInnerFenceBound == positionInBounds(position, f.position, innerFenceBoundSize)
        isInOpening == positionInBounds(position, openingPosition, FenceOpeningSize)
    IN  isInOuterFenceBound /\ ~isInInnerFenceBound /\ ~isInOpening

\* ------------------------------------------------------ GameManager

\* The inputs of one frame: the arrow keys the host reports held (keyIsDown),
\* the host's frameRate() reading, and the one random roll of the frame that
\* manifests, if any: of which cow, at which of its Cow.tick calls (1: the sprite
\* update, 2: the fence re-tick, 3: the play-area re-tick), drawing which direction.
KeySets == { {}, {"LEFT", "RIGHT"}, {"RIGHT", "UP"}, {"UP", "DOWN"}, {"DOWN"} }
SkippedFrameKeySets == { {}, {"LEFT", "RIGHT"} }
Cardinals == {VECTOR_LEFT, VECTOR_RIGHT, VECTOR_UP, VECTOR_DOWN}
NoRoll == [cow |-> 0, site |-> 0, dir |-> VECTOR_ZERO]
Rolls == {NoRoll} \cup [cow : Cows, site : 1..3, dir : Cardinals]
\* frameRate() readings: 0 (before the first draw), Infinity, NaN, or a measured
\* rate given by its frame time in time units (3: 10 fps, 30: 1 fps, 150: 0.2 fps).
FrameTimes == {3, 30, 150}
MeasuredReadings == {[kind |-> "measured", frameTime |-> t] : t \in FrameTimes}
WeirdReadings == {[kind |-> "zero", frameTime |-> 0], [kind |-> "infinity", frameTime |-> 0], [kind |-> "nan", frameTime |-> 0]}
Readings == MeasuredReadings \cup WeirdReadings

\* let dt = 1.0 / frameRate()
Dt(reading) ==
    CASE reading.kind = "zero" -> Infinity
      [] reading.kind = "infinity" -> Finite(0)
      [] reading.kind = "nan" -> NaN
      [] OTHER -> Finite(reading.frameTime)

\* Variant of the guard of tick without the !dt test: a zero dt runs the frame.
SkipTick_NoZeroTest(dt) == dt.kind # "finite" \/ dt.kind = "nan"

\* if (!dt || !isFinite(dt) || isNaN(dt)) { return; }
SkipTick(dt) ==
    \/ (dt.kind = "nan" \/ (dt.kind = "finite" /\ dt.val = 0))
    \/ dt.kind # "finite"
    \/ dt.kind = "nan"

\* Variant of the keyIsDown chain with independent ifs: the held directions add up.
ControlledDirection_Sum(keys) ==
    Add(Add(IF "LEFT" \in keys THEN VECTOR_LEFT ELSE VECTOR_ZERO,
            IF "RIGHT" \in keys THEN VECTOR_RIGHT ELSE VECTOR_ZERO),
        Add(IF "UP" \in keys THEN VECTOR_UP ELSE VECTOR_ZERO,
            IF "DOWN" \in keys THEN VECTOR_DOWN ELSE VECTOR_ZERO))

\* The keyIsDown chain of tick: left, right, up, down, else zero.
ControlledDirection(keys) ==
    IF "LEFT" \in keys THEN VECTOR_LEFT
    ELSE IF "RIGHT" \in keys THEN VECTOR_RIGHT
    ELSE IF "UP" \in keys THEN VECTOR_UP
    ELSE IF "DOWN" \in keys THEN VECTOR_DOWN
    ELSE VECTOR_ZERO

\* Variant of tick that gives the followed cow no target.
UpdateTarget_Never(cs, following, p) == cs

\* Variant of tick that gives the followed cow its target once, when it has none.
UpdateTarget_FirstOnly(cs, following, p) ==
    IF following # 0 /\ cs[following].targetPosition = None
    THEN [cs EXCEPT ![following] = setTargetPosition(cs[following], p.position)]
    ELSE cs

\* Variant of tick that gives every cow the target while one is followed.
UpdateTarget_AllCows(cs, following, p) ==
    IF following # 0
    THEN [i \in Cows |-> setTargetPosition(cs[i], p.position)]
    ELSE cs

\* if (this._followingCow) { this._followingCow.setTargetPosition(person.getPosition()) }
UpdateTarget(cs, following, p) ==
    IF following # 0
    THEN [cs EXCEPT ![following] = setTargetPosition(cs[following], p.position)]
    ELSE cs

\* Whether the roll of the frame is the one of cow i's Cow.tick call at this site.
Hit(roll, i, site) == roll.cow = i /\ roll.site = site

\* The fence test of a cow: invert the velocity and tick the cow once more.
FenceCollision(c, f, dt, hit, dir) ==
    IF isOverlapping(f, c.position)
    THEN CowTick(setVelocity(c, Mult(c.velocity, -1)), dt, hit, dir)
    ELSE c

\* The play-area test of a cow, on the position it has after the fence test.
gameBounds == Sub(Vec(Width, Height), Mult(VECTOR_ONE, EdgeWidth))
\* Variant of the play-area test that inverts the velocity without the extra tick.
EdgeCollision_NoExtraTick(c, dt, hit, dir) ==
    IF ~positionInBounds(c.position, VECTOR_ZERO, gameBounds)
    THEN setVelocity(c, Mult(c.velocity, -1))
    ELSE c

EdgeCollision(c, dt, hit, dir) ==
    IF ~positionInBounds(c.position, VECTOR_ZERO, gameBounds)
    THEN CowTick(setVelocity(c, Mult(c.velocity, -1)), dt, hit, dir)
    ELSE c

\* Variant of the person's fence test that stops the person where it is.
PersonCollision_NoStepBack(p, f, dt) ==
    IF isOverlapping(f, p.position) THEN setVelocity(p, VECTOR_ZERO) ELSE p

\* Variant of tick without the fence test of the person.
PersonCollision_Skipped(p, f, dt) == p

\* The fence test of the person: one step back and stop.
PersonCollision(p, f, dt) ==
    IF isOverlapping(f, p.position)
    THEN setVelocity(setPosition(p, Sub(p.position, Scale(p.velocity, dt))), VECTOR_ZERO)
    ELSE p

\* Variant of the win test against the outer bound of the ring.
cowsOutsideFence_OuterBound(cs, f) ==
    {i \in Cows : ~positionInBounds(cs[i].position, f.position,
                                    Add(f.size, Mult(VECTOR_ONE, FenceEdgeWidth \div 2)))}

\* The cows that are not strictly inside the fence's own rectangle.
cowsOutsideFence(cs, f) == {i \in Cows : ~positionInBounds(cs[i].position, f.position, f.size)}

\* Variant of the win test that takes the success text back when a cow is outside.
WinText_Recomputed(cs, f, text) ==
    IF cowsOutsideFence(cs, f) = {} THEN DescriptionSuccess ELSE DescriptionInitial

\* Variant of the win test that leaves the font size as it is.
WinFontSize_Stale(cs, f, size) == size

\* The description after the win test of tick.
WinText(cs, f, text) == IF cowsOutsideFence(cs, f) = {} THEN DescriptionSuccess ELSE text
WinFontSize(cs, f, size) == IF cowsOutsideFence(cs, f) = {} THEN DescriptionSuccessFontSize ELSE size

\* History of a call: the operation, its inputs, the game state before it, and
\* the intermediate values of a frame (the person and the cows after the sprite
\* update, the cows after the fence test).
Record(op, key, keys, dt, rolled, personU, cowsU, cowsF) ==
    [op |-> op, key |-> key, keys |-> keys, dt |-> dt, rolled |-> rolled,
     before |-> [title |-> title, fence |-> fence, person |-> person, cows |-> cows,
                 followingCow |-> followingCow, descriptionText |-> descriptionText,
                 descriptionFontSize |-> descriptionFontSize],
     personU |-> personU, cowsU |-> cowsU, cowsF |-> cowsF]

\* Claim-side geometry, written out from the fence's position and size: a
\* position strictly inside the rectangle of the fence image.
InsideFenceRectangle(p) ==
    /\ 2 * Abs(p.x - fence.position.x) < fence.size.x
    /\ 2 * Abs(p.y - fence.position.y) < fence.size.y

\* GameManager.tick.  A valid dt is an integer number of time units; the stages
\* of the frame are bound one after the other, as the code runs them.
TickCall(keys, reading, roll) ==
    \E dt \in {Dt(reading)} :
      IF SkipTick(dt)
      THEN /\ roll = NoRoll
           /\ UNCHANGED <<game, ticks, rolls, rollers, moves, wonBefore>>
           /\ last' = Record("tick", "", keys, dt, FALSE, person, cows, cows)
      ELSE /\ ticks < MaxTicks
           /\ roll # NoRoll => /\ rolls < MaxRolls /\ Cardinality(rollers \cup {roll.cow}) <= MaxRollers
                               /\ moves = 0 /\ keys = {} /\ followingCow = 0
           /\ keys # {} => (moves < MaxMoves /\ rolls = 0)
           \* the person's velocity from the held keys, the followed cow's target
           /\ \E person1 \in {setControlledDirection(person, ControlledDirection(keys))} :
              \E cows1 \in {UpdateTarget(cows, followingCow, person1)} :
              \* this._allSprites.forEach(sprite => sprite.tick({ dt: dt }))
              \E titleU \in {SpriteTick(title, dt.val)} :
              \E fenceU \in {SpriteTick(fence, dt.val)} :
              \E personU \in {AnimatingTick(person1, dt.val, PersonImageCount)} :
              \E cowsU \in {[i \in Cows |-> CowTick(cows1[i], dt.val, Hit(roll, i, 1), roll.dir)]} :
              \* this._cows.forEach(cow => { the fence test; the play-area test })
              \E cowsF \in {[i \in Cows |-> FenceCollision(cowsU[i], fenceU, dt.val, Hit(roll, i, 2), roll.dir)]} :
              \E cowsE \in {[i \in Cows |-> EdgeCollision(cowsF[i], dt.val, Hit(roll, i, 3), roll.dir)]} :
                 \* the roll of the frame is one that a _tickNormal call drew
                 /\ roll # NoRoll =>
                       /\ cows1[roll.cow].targetPosition = None
                       /\ \/ roll.site = 1
                          \/ roll.site = 2 /\ isOverlapping(fenceU, cowsU[roll.cow].position)
                          \/ roll.site = 3 /\ ~positionInBounds(cowsF[roll.cow].position, VECTOR_ZERO, gameBounds)
                 /\ title' = titleU
                 /\ fence' = fenceU
                 /\ cows' = cowsE
                 /\ person' = PersonCollision(personU, fenceU, dt.val)
                 /\ descriptionText' = WinText(cowsE, fenceU, descriptionText)
                 /\ descriptionFontSize' = WinFontSize(cowsE, fenceU, descriptionFontSize)
                 /\ wonBefore' = (wonBefore \/ \A i \in Cows : InsideFenceRectangle(cowsE[i].position))
                 /\ last' = Record("tick", "", keys, dt, roll # NoRoll, personU, cowsU, cowsF)
           /\ UNCHANGED followingCow
           /\ ticks' = ticks + 1
           /\ rolls' = IF roll # NoRoll THEN rolls + 1 ELSE rolls
           /\ rollers' = IF roll # NoRoll THEN rollers \cup {roll.cow} ELSE rollers
           /\ moves' = IF keys # {} THEN moves + 1 ELSE moves

\* The cows in range of the person, in creation order (Array.filter).
cowsInRange(cs, p) ==
    SelectSeq([i \in Cows |-> i], LAMBDA i : DistLess(p.position, cs[i].position, CowRange))

\* Variant of keyTyped without the test of the key: every key selects and releases.
FollowAfterKey_AnyKey(key, following, cs, p) ==
    IF following # 0
    THEN 0
    ELSE IF Len(cowsInRange(cs, p)) > 0 THEN cowsInRange(cs, p)[1] ELSE following

\* GameManager.keyTyped: the follow reference after the key.
FollowAfterKey(key, following, cs, p) ==
    IF key = " "
    THEN IF following # 0
         THEN 0
         ELSE IF Len(cowsInRange(cs, p)) > 0 THEN cowsInRange(cs, p)[1] ELSE following
    ELSE following

\* Variant of keyTyped that releases the follow reference and leaves the
\* released cow its target.
CowsAfterKey_KeepsTarget(key, following, cs, p) == cs

\* GameManager.keyTyped: the cows after the key (the released cow loses its target).
CowsAfterKey(key, following, cs, p) ==
    IF key = " " /\ following # 0
    THEN [cs EXCEPT ![following] = unsetTargetPosition(cs[following])]
    ELSE cs

TypedKeys == {" ", "a"}

\* The cows' starting positions: random(-width / 2 + edge, width / 2 - edge) on
\* each axis; the model draws them from these placements.
InStartRange(p) ==
    /\ 2 * p.x >= -Width + 2 * EdgeWidth /\ 2 * p.x < Width - 2 * EdgeWidth
    /\ 2 * p.y >= -Height + 2 * EdgeWidth /\ 2 * p.y < Height - 2 * EdgeWidth
Placements ==
    { <<Vec(30, 0), Vec(0, -190), Vec(195, 0)>>,
      <<Vec(30, 40), Vec(0, 45), Vec(-20, 0)>>,
      <<Vec(100, 219), Vec(-219, -219), Vec(210, 0)>> }

\* new Cow({ position }) / new Person({ position })
NewCow(p) ==
    [position |-> p, velocity |-> VECTOR_ZERO, elapsedTime |-> 0,
     image |-> Image("down", 0), lastImage |-> Image("down", 0), targetPosition |-> None]
NewPerson(p) ==
    [position |-> p, velocity |-> VECTOR_ZERO, elapsedTime |-> 0,
     image |-> Image("down", 0), lastImage |-> Image("down", 0)]

\* The constructor and setup() up to its loop of ticks.
Init ==
    /\ title = [position |-> Vec(0, 60 - Height \div 2), velocity |-> VECTOR_ZERO, size |-> Vec(400, 60)]
    /\ fence = [position |-> VECTOR_ZERO, velocity |-> VECTOR_ZERO, size |-> FenceSize]
    /\ person = NewPerson(VECTOR_ZERO)
    /\ \E pl \in Placements :
          /\ \A i \in Cows : InStartRange(pl[i])
          /\ cows = [i \in Cows |-> NewCow(pl[i])]
    /\ followingCow = 0
    /\ descriptionText = DescriptionInitial
    /\ descriptionFontSize = DescriptionInitialFontSize
    /\ setupLeft = SetupIterations
    /\ ticks = 0
    /\ rolls = 0
    /\ rollers = {}
    /\ moves = 0
    /\ wonBefore = FALSE
    /\ last = Record("new", "", {}, Finite(0), FALSE, person, cows, cows)

\* setup(): for (let i = 0; i < 10; i++) { this.tick({ dt: 1.0 / 30 }) }.  tick
\* takes no parameter: it reads frameRate(), which the host reports as 0 until
\* the first draw.
SetupTick ==
    /\ setupLeft > 0
    /\ setupLeft' = setupLeft - 1
    /\ TickCall({}, [kind |-> "zero", frameTime |-> 0], NoRoll)

\* draw(): tick() and the rendering of the frame (which changes no state).  A
\* frame that tick skips reads no key and draws no roll: the model holds one of
\* two key sets in it.
Draw ==
    /\ setupLeft = 0
    /\ UNCHANGED setupLeft
    /\ \E reading \in Readings :
       \E keys \in (IF SkipTick(Dt(reading)) THEN SkippedFrameKeySets ELSE KeySets) :
       \E roll \in (IF SkipTick(Dt(reading)) THEN {NoRoll} ELSE Rolls) :
          TickCall(keys, reading, roll)

\* keyTyped()
KeyTyped ==
    /\ setupLeft = 0
    /\ \E key \in TypedKeys :
          /\ followingCow' = FollowAfterKey(key, followingCow, cows, person)
          /\ cows' = CowsAfterKey(key, followingCow, cows, person)
          /\ last' = Record("keyTyped", key, {}, Finite(0), FALSE, person, cows, cows)
    /\ UNCHANGED <<title, fence, person, descriptionText, descriptionFontSize, setupLeft, ticks, rolls, rollers, moves, wonBefore>>

Next == SetupTick \/ Draw \/ KeyTyped

Spec == Init /\ [][Next]_vars

\* ======================================================= Properties
\* The properties read the history of the last call: its inputs, the game before
\* it (last.before) and the game after it (the variables).

\* The game as the record the history keeps of it.
Game ==
    [title |-> title, fence |-> fence, person |-> person, cows |-> cows,
     followingCow |-> followingCow, descriptionText |-> descriptionText,
     descriptionFontSize |-> descriptionFontSize]

\* The last call was tick / was tick with a dt that is zero, infinite or NaN /
\* was tick with a positive finite dt.
LastWasTick == last.op = "tick"
LastDtUnusable ==
    \/ last.dt.kind = "infinity"
    \/ last.dt.kind = "nan"
    \/ (last.dt.kind = "finite" /\ last.dt.val = 0)
LastWasValidTick == LastWasTick /\ last.dt.kind = "finite" /\ last.dt.val > 0
LastWasSpace == last.op = "keyTyped" /\ last.key = " "

\* The description states.
InSuccessState ==
    descriptionText = DescriptionSuccess /\ descriptionFontSize = DescriptionSuccessFontSize
InInitialState ==
    descriptionText = DescriptionInitial /\ descriptionFontSize = DescriptionInitialFontSize
WasInSuccessState ==
    /\ last.before.descriptionText = DescriptionSuccess
    /\ last.before.descriptionFontSize = DescriptionSuccessFontSize

\* ---------------------------------------------------------------- C1
\* C1: a tick whose dt is zero, infinite or NaN changes nothing: positions,
\* velocities, elapsed times, images, targets, the follow reference and the
\* description are what they were before it, whatever keys are held.
C1_SkippedTickChangesNothing == (LastWasTick /\ LastDtUnusable) => Game = last.before

\* A frame skipped for a zero dt after the game has moved on: keys are held, a
\* cow is followed and has its target, the person is off its starting place.
C1_Witness ==
    /\ LastWasTick /\ last.dt = Finite(0)
    /\ last.keys # {}
    /\ followingCow # 0 /\ cows[followingCow].targetPosition # None
    /\ person.position # VECTOR_ZERO

\* ---------------------------------------------------------------- C2
\* C2: the win state is one-way: once the description is in the success state
\* (success text, success font size) it is in it after every later call, also
\* when a cow is outside the fence rectangle again.
C2_WinIsOneWay == WasInSuccessState => InSuccessState

\* A tick that began in the success state and ended with a cow outside the
\* fence rectangle.
C2_Witness ==
    /\ LastWasValidTick /\ WasInSuccessState /\ InSuccessState
    /\ \E i \in Cows : ~InsideFenceRectangle(cows[i].position)

\* ---------------------------------------------------------------- C4
\* Claim-side range: the squared distance of cow i to the person before the
\* key press, against the square of 50.
DistanceSquaredBefore(i) ==
    LET d == Sub(last.before.cows[i].position, last.before.person.position)
    IN  d.x * d.x + d.y * d.y
InRangeBefore == {i \in Cows : DistanceSquaredBefore(i) < 50 * 50}

\* C4: keyTyped with the space key and no followed cow selects the cow of the
\* lowest index among those at a distance strictly less than 50 from the
\* person; a cow at 50 or more is never selected; with no cow in range the
\* press changes nothing.
C4_SelectsFirstInRange ==
    (LastWasSpace /\ last.before.followingCow = 0) =>
        IF InRangeBefore = {}
        THEN Game = last.before
        ELSE /\ followingCow \in InRangeBefore
             /\ \A i \in InRangeBefore : followingCow <= i

\* A selection in which the first cow is at exactly 50 and two later cows are
\* in range: the second is selected.
C4_Witness ==
    /\ LastWasSpace /\ last.before.followingCow = 0
    /\ DistanceSquaredBefore(1) = 50 * 50
    /\ InRangeBefore = {2, 3}
    /\ followingCow = 2

\* ---------------------------------------------------------------- C5
\* C5: keyTyped with the space key and a followed cow releases it: the cow's
\* target is cleared and the follow reference is cleared; the press selects no
\* other cow, even with one in range, and no cow holds a target after it.
C5_SpaceReleases ==
    (LastWasSpace /\ last.before.followingCow # 0) =>
        /\ followingCow = 0
        /\ \A i \in Cows : cows[i].targetPosition = None

\* A release of a cow that had its target, with cows in range of the person.
C5_Witness ==
    /\ LastWasSpace /\ last.before.followingCow # 0
    /\ last.before.cows[last.before.followingCow].targetPosition # None
    /\ InRangeBefore # {}
    /\ followingCow = 0

\* ---------------------------------------------------------------- C3
\* The description is in the success state exactly when some valid tick so far
\* ended with every cow strictly inside the fence rectangle, and the text and
\* the font size are switched together.
DescriptionFollowsWonBefore ==
    /\ InSuccessState <=> wonBefore
    /\ InSuccessState \/ InInitialState

\* The last call was the first valid tick, and every cow started strictly
\* inside the fence rectangle.
FirstValidTickFromInside ==
    /\ LastWasValidTick /\ ticks = 1
    /\ \A i \in Cows : InsideFenceRectangle(last.before.cows[i].position)

\* C3 (as stated): the description is in the success state exactly when some
\* valid tick ended with no cow outside the fence rectangle, text and font size
\* together; when all cows start inside, it is in the success state right after
\* the first valid tick.
C3_AsStated ==
    /\ DescriptionFollowsWonBefore
    /\ FirstValidTickFromInside => InSuccessState

\* C3 (amended): as stated, the start-inside case holding when no cow moved in
\* the first valid tick.
C3_SuccessIffWonBefore ==
    /\ DescriptionFollowsWonBefore
    /\ (/\ FirstValidTickFromInside
        /\ \A i \in Cows : cows[i].position = last.before.cows[i].position)
       => InSuccessState

\* The first valid tick, from a start with every cow inside, switches the
\* description from the initial state to the success state.
C3_Witness ==
    /\ FirstValidTickFromInside
    /\ \A i \in Cows : cows[i].position = last.before.cows[i].position
    /\ last.before.descriptionText = DescriptionInitial
    /\ last.before.descriptionFontSize = DescriptionInitialFontSize
    /\ InSuccessState

\* ---------------------------------------------------------------- C6
\* The last call was a space press that selected a cow.
LastSelected == LastWasSpace /\ last.before.followingCow = 0 /\ followingCow # 0

\* C6 (as stated): right after the keyTyped call that selects a cow, the cow's
\* target equals the person's position.
C6_AsStated == LastSelected => cows[followingCow].targetPosition = person.position

\* C6 (amended): the selecting keyTyped call sets the follow reference only, the
\* selected cow has no target after it; the next valid tick gives the followed
\* cow the position the person has at the start of that tick as its target.
C6_TargetSetByNextTick ==
    /\ LastSelected =>
          /\ cows = last.before.cows
          /\ cows[followingCow].targetPosition = None
    /\ (LastWasValidTick /\ last.before.followingCow # 0) =>
          cows[last.before.followingCow].targetPosition = last.before.person.position

\* The first valid tick after a selection, with the person moving in it: the
\* cow gets the position the person had at the start of the tick.
C6_Witness ==
    /\ LastWasValidTick /\ last.before.followingCow # 0
    /\ last.before.cows[last.before.followingCow].targetPosition = None
    /\ person.position # last.before.person.position
    /\ cows[last.before.followingCow].targetPosition = last.before.person.position

\* ---------------------------------------------------------------- C7
\* A valid tick with a followed cow and no key held: the person stays where it
\* is, and its position is the cow's target throughout the tick.
QuietFollowingTick ==
    /\ LastWasValidTick /\ last.keys = {}
    /\ last.before.followingCow # 0
    /\ person.position = last.before.person.position

\* How far a cow is beyond the padding of 40 around the person, on both axes.
Over(d) == IF Abs(d) > 40 THEN Abs(d) - 40 ELSE 0
Excess(c) ==
    Over(c.position.x - last.before.person.position.x)
      + Over(c.position.y - last.before.person.position.y)

\* One tick of the approach: a cow beyond the padding ends the tick closer to
\* it, moving along one axis; a cow within the padding ends the tick where it
\* was, with velocity zero.
ApproachStep ==
    LET b == last.before.cows[last.before.followingCow]
        a == cows[last.before.followingCow]
    IN  /\ Excess(b) > 0 =>
              /\ Excess(a) < Excess(b)
              /\ a.velocity.x = 0 \/ a.velocity.y = 0
        /\ Excess(b) = 0 =>
              /\ a.velocity = VECTOR_ZERO
              /\ a.position = b.position

\* The dt of the last tick is at most 2 s: a step of 40 px/s is at most 80 px,
\* the width of the padding box.
StepWithinPaddingBox == last.dt.val <= 2 * 30

\* C7 (as stated): with the person fixed, every valid tick brings the followed
\* cow closer to the padding box until it is within it on both axes, and from
\* then on every tick leaves it there with velocity zero.
C7_AsStated == QuietFollowingTick => ApproachStep

\* C7 for short steps: what the code does keep, for ticks whose dt is at most 2 s.
C7_ApproachWithShortSteps == (QuietFollowingTick /\ StepWithinPaddingBox) => ApproachStep

\* An approach tick in which the cow runs into the fence on its way and ends
\* within the padding.
C7_ShortStepThroughFence ==
    /\ QuietFollowingTick /\ StepWithinPaddingBox
    /\ Excess(last.before.cows[last.before.followingCow]) > 0
    /\ isOverlapping(fence, last.cowsU[last.before.followingCow].position)
    /\ Excess(cows[last.before.followingCow]) = 0

\* ---------------------------------------------------------------- C8
\* C8 (as stated): a cow that overlaps the fence after the sprite update has,
\* after the fence test, the negation of the velocity it moved with and the
\* position it had before the sprite update.
C8_AsStated ==
    LastWasValidTick =>
        \A i \in Cows :
            isOverlapping(fence, last.cowsU[i].position) =>
                /\ last.cowsF[i].velocity = Mult(last.cowsU[i].velocity, -1)
                /\ last.cowsF[i].position = last.before.cows[i].position

\* ---------------------------------------------------------------- C9
\* C9: when the person's position after the sprite update overlaps the fence,
\* the person is back at the position it had at the start of the tick with
\* velocity zero; when it does not overlap, the person is as the update left it.
C9_PersonStopsAtFence ==
    LastWasValidTick =>
        IF isOverlapping(fence, last.personU.position)
        THEN /\ person.position = last.before.person.position
             /\ person.velocity = VECTOR_ZERO
        ELSE person = last.personU

\* The person walked onto the fence and was put back.
C9_Witness ==
    /\ LastWasValidTick
    /\ isOverlapping(fence, last.personU.position)
    /\ last.personU.position # last.before.person.position
    /\ person.position = last.before.person.position
    /\ person.velocity = VECTOR_ZERO

\* --------------------------------------------------------------- C10
\* A position that is not strictly inside the play area: the rectangle at the
\* origin of the canvas size less the edge width of 80.
OutsidePlayArea(p) == ~(2 * Abs(p.x) < Width - 80 /\ 2 * Abs(p.y) < Height - 80)

\* C10: the play-area test is applied to every cow on the position it has
\* after the fence test, whether or not the fence test fired: outside the play
\* area the velocity is inverted and the cow ticked once more (one more dt of
\* elapsed time, one more step, at the inverted velocity unless the extra tick
\* decides the velocity anew), inside it the cow is left alone; when both tests
\* fire the cow has had three ticks in the frame.
C10_PlayAreaAfterFence ==
    LastWasValidTick =>
        \A i \in Cows :
            LET pF == last.cowsF[i]
            IN  /\ OutsidePlayArea(pF.position) =>
                      /\ cows[i].elapsedTime = pF.elapsedTime + last.dt.val
                      /\ cows[i].position = Add(pF.position, Scale(cows[i].velocity, last.dt.val))
                      /\ (cows[i].targetPosition = None /\ ~last.rolled) =>
                            cows[i].velocity = Mult(pF.velocity, -1)
                /\ ~OutsidePlayArea(pF.position) => cows[i] = pF
                /\ (isOverlapping(fence, last.cowsU[i].position) /\ OutsidePlayArea(pF.position)) =>
                      cows[i].elapsedTime = last.before.cows[i].elapsedTime + 3 * last.dt.val

\* Both tests fire for one cow in one frame.
C10_Witness ==
    /\ LastWasValidTick
    /\ \E i \in Cows :
          /\ isOverlapping(fence, last.cowsU[i].position)
          /\ OutsidePlayArea(last.cowsF[i].position)
          /\ cows[i].elapsedTime = last.before.cows[i].elapsedTime + 3 * last.dt.val

\* --------------------------------------------------------------- C11
\* A velocity along one axis at most.
AxisAligned(v) == v.x = 0 \/ v.y = 0

\* C11: a cow's velocity is never diagonal: at most one of its components is
\* nonzero in every state, for a followed cow too, also right after the sprite
\* update, after the inversion of the fence test, after the inversion of the
\* play-area test and after a release.
C11_CowVelocityAxisAligned ==
    \A i \in Cows :
        /\ AxisAligned(cows[i].velocity)
        /\ AxisAligned(last.cowsU[i].velocity)
        /\ AxisAligned(last.cowsF[i].velocity)

\* A followed cow that is beyond the padding on both axes and moves along one.
C11_Witness ==
    /\ LastWasValidTick /\ last.before.followingCow # 0
    /\ LET b == last.before.cows[last.before.followingCow]
       IN  /\ Abs(b.position.x - last.before.person.position.x) > 40
           /\ Abs(b.position.y - last.before.person.position.y) > 40
    /\ cows[last.before.followingCow].velocity # VECTOR_ZERO

\* --------------------------------------------------------------- C12
\* C12 (as stated): when setup returns, the game has advanced by ten steps of
\* 1/30 s: every cow's elapsed time is 10/30 s (ten time units) before the
\* first frame.
C12_AsStated ==
    (setupLeft = 0 /\ ticks = 0) => \A i \in Cows : cows[i].elapsedTime = 10

\* --------------------------------------------------------------- C13
\* Claim-side geometry: strictly inside the rectangle of width w and height h
\* centred at (cx, cy).
StrictlyInside(p, cx, cy, w, h) == 2 * Abs(p.x - cx) < w /\ 2 * Abs(p.y - cy) < h
InOuterBound(p) ==
    StrictlyInside(p, fence.position.x, fence.position.y, fence.size.x + 50, fence.size.y + 50)
InInnerBound(p) ==
    StrictlyInside(p, fence.position.x, fence.position.y, fence.size.x - 50, fence.size.y - 50)
InOpening(p) ==
    StrictlyInside(p, fence.position.x, fence.position.y - fence.size.y \div 2, 100, 100)
ClaimedOverlap(p) == InOuterBound(p) /\ ~InInnerBound(p) /\ ~InOpening(p)

\* Probe positions: the coordinates at, next to and between the edges of the
\* three rectangles.
ProbeCoordinates ==
    {-251, -250, -249, -226, -225, -224, -200, -176, -175, -174, -151, -150, -149,
     -51, -50, -49, 0, 49, 50, 51, 149, 150, 151, 174, 175, 176, 200, 224, 225, 226,
     249, 250, 251}
ProbePositions == {Vec(x, y) : x \in ProbeCoordinates, y \in ProbeCoordinates}

\* The positions the sprites have in a state and had in the last frame.
SpritePositions ==
    {person.position, last.personU.position}
      \cup {cows[i].position : i \in Cows}
      \cup {last.cowsU[i].position : i \in Cows}
      \cup {last.cowsF[i].position : i \in Cows}

\* C13: isOverlapping(p) is true exactly when p is strictly inside the outer
\* bound (size + 50), not strictly inside the inner bound (size - 50) and not
\* strictly inside the opening (100 x 100, centred half the fence height above
\* the centre); no position inside the opening reports overlap, and the column
\* through the opening is free of overlap from above the outer bound down to
\* the centre of the fence.  The fence never changes, so the probe positions are
\* tried once, on the new game; the sprites' positions are tried in every state.
C13_OverlapIsRingLessOpening ==
    /\ fence.position = VECTOR_ZERO /\ fence.size = FenceSize
    /\ \A p \in SpritePositions : isOverlapping(fence, p) <=> ClaimedOverlap(p)
    /\ last.op = "new" =>
          /\ \A p \in ProbePositions :
                /\ isOverlapping(fence, p) <=> ClaimedOverlap(p)
                /\ InOpening(p) => ~isOverlapping(fence, p)
          /\ \A y \in {c \in ProbeCoordinates : c <= 0} : ~isOverlapping(fence, Vec(0, y))

\* A cow walks through the opening: after the sprite update it is within the
\* thickness of the ring, inside the opening, and the fence test lets it be.
C13_Witness ==
    /\ LastWasValidTick
    /\ \E i \in Cows :
          /\ last.cowsU[i].position # last.before.cows[i].position
          /\ InOuterBound(last.cowsU[i].position) /\ ~InInnerBound(last.cowsU[i].position)
          /\ InOpening(last.cowsU[i].position)
          /\ ~isOverlapping(fence, last.cowsU[i].position)
          /\ last.cowsF[i] = last.cowsU[i]

\* --------------------------------------------------------------- C14
\* Claim-side priority: the velocity the held keys give, left before right
\* before up before down, at the person speed of 30.
KeyVelocity(keys) ==
    CASE "LEFT" \in keys -> Vec(-30, 0)
      [] "RIGHT" \in keys -> Vec(30, 0)
      [] "UP" \in keys -> Vec(0, -30)
      [] "DOWN" \in keys -> Vec(0, 30)
      [] OTHER -> Vec(0, 0)

\* C14: on every valid tick the person moves with the velocity of the first
\* held key in the order left, right, up, down, times 30, lower keys having no
\* effect, and with zero when none is held; the person's velocity is never
\* diagonal (at the end of the tick it is that velocity, or zero after the
\* fence test).
C14_KeyPriority ==
    /\ AxisAligned(person.velocity)
    /\ LastWasValidTick =>
          /\ last.personU.velocity = KeyVelocity(last.keys)
          /\ last.personU.position = Add(last.before.person.position, Scale(KeyVelocity(last.keys), last.dt.val))
          /\ person.velocity \in {KeyVelocity(last.keys), VECTOR_ZERO}

\* Right and up are held together: the person moves right.
C14_Witness ==
    /\ LastWasValidTick
    /\ last.keys = {"RIGHT", "UP"}
    /\ person.velocity = Vec(30, 0)
    /\ person.position.x > last.before.person.position.x
    /\ person.position.y = last.before.person.position.y

\* --------------------------------------------------------------- C15
\* Cow c is what it was before the call, target aside.
SameButTarget(i) ==
    [cows[i] EXCEPT !.targetPosition = None]
      = [last.before.cows[i] EXCEPT !.targetPosition = None]

\* C15: keyTyped with a key other than space changes nothing; with space it
\* changes nothing but the follow reference and the target of the cow it
\* releases; no keyTyped call changes a position, a velocity or the description.
C15_KeyTypedEffect ==
    last.op = "keyTyped" =>
        /\ last.key # " " => Game = last.before
        /\ title = last.before.title /\ fence = last.before.fence
        /\ person = last.before.person
        /\ descriptionText = last.before.descriptionText
        /\ descriptionFontSize = last.before.descriptionFontSize
        /\ \A i \in Cows :
              /\ SameButTarget(i)
              /\ i # last.before.followingCow => cows[i] = last.before.cows[i]

\* Another key is typed while a cow is followed, has its target and moves.
C15_Witness ==
    /\ last.op = "keyTyped" /\ last.key # " "
    /\ followingCow # 0
    /\ cows[followingCow].targetPosition # None
    /\ cows[followingCow].velocity # VECTOR_ZERO

\* --------------------------------------------------------------- C16
\* C16 (as stated): in every state after setup the person and every cow are
\* inside the play area, the canvas less the border.
C16_AsStated ==
    setupLeft = 0 =>
        /\ ~OutsidePlayArea(person.position)
        /\ \A i \in Cows : ~OutsidePlayArea(cows[i].position)

\* The two ways out of the play area: tick has no play-area test of the
\* person, and a cow that the play-area test turns can be stopped, outside, by
\* the roll of its extra tick.
C16_PersonLeavesPlayArea == OutsidePlayArea(person.position)
C16_CowLeftOutside ==
    /\ LastWasValidTick
    /\ \E i \in Cows :
          /\ ~OutsidePlayArea(last.before.cows[i].position)
          /\ OutsidePlayArea(cows[i].position)

\* --------------------------------------------------------------- C17
\* Claim-side choice: the velocity of a cow at pos with target tgt, x before y,
\* padding 40, speed 40.
ClaimedChoice(pos, tgt) ==
    CASE pos.x > tgt.x + 40 -> Vec(-40, 0)
      [] pos.x <= tgt.x + 40 /\ pos.x < tgt.x - 40 -> Vec(40, 0)
      [] Abs(pos.x - tgt.x) <= 40 /\ pos.y > tgt.y + 40 -> Vec(0, -40)
      [] Abs(pos.x - tgt.x) <= 40 /\ pos.y <= tgt.y + 40 /\ pos.y < tgt.y - 40 -> Vec(0, 40)
      [] OTHER -> Vec(0, 0)
WithinPadding(pos, tgt) == Abs(pos.x - tgt.x) <= 40 /\ Abs(pos.y - tgt.y) <= 40

\* C17: every tick of a cow that has a target (the one of the sprite update,
\* the extra one of the fence test, the extra one of the play-area test) sets
\* the velocity by the cow's position against its target: left, right, up,
\* down or zero, x before y, padding 40, speed 40; y counts only when x is
\* within the padding, and the velocity is zero exactly when the cow is within
\* the padding on both axes.
C17_TargetChoice ==
    (LastWasValidTick /\ last.before.followingCow # 0) =>
        LET f == last.before.followingCow
            tgt == last.cowsU[f].targetPosition
            b == last.before.cows[f]
        IN  /\ last.cowsU[f].velocity = ClaimedChoice(b.position, tgt)
            /\ last.cowsU[f].velocity = VECTOR_ZERO <=> WithinPadding(b.position, tgt)
            /\ last.cowsU[f].velocity.y # 0 => Abs(b.position.x - tgt.x) <= 40
            /\ isOverlapping(fence, last.cowsU[f].position) =>
                  last.cowsF[f].velocity = ClaimedChoice(last.cowsU[f].position, tgt)
            /\ OutsidePlayArea(last.cowsF[f].position) =>
                  cows[f].velocity = ClaimedChoice(last.cowsF[f].position, tgt)

\* A cow within the padding on x and beyond it on y moves along y.
C17_Witness ==
    /\ LastWasValidTick /\ last.before.followingCow # 0
    /\ LET f == last.before.followingCow
       IN  /\ Abs(last.before.cows[f].position.x - last.cowsU[f].targetPosition.x) <= 40
           /\ last.cowsU[f].velocity.y # 0
           /\ last.cowsU[f].position.y # last.before.cows[f].position.y

\* --------------------------------------------------------------- C18
\* C18: in every valid tick with a followed cow the cow's target is set to the
\* position the person has at the start of the tick, before any sprite moves:
\* the cow has that target in its sprite update, chooses its direction against
\* it, and has it at the end of the tick, wherever the person went in the tick.
C18_TargetIsPersonAtStart ==
    (LastWasValidTick /\ last.before.followingCow # 0) =>
        LET f == last.before.followingCow
            start == last.before.person.position
        IN  /\ last.cowsU[f].targetPosition = start
            /\ last.cowsF[f].targetPosition = start
            /\ cows[f].targetPosition = start
            /\ last.cowsU[f].velocity = ClaimedChoice(last.before.cows[f].position, start)
            /\ followingCow = f

\* A tick that replaces the target of the tick before, with the person walking.
C18_Witness ==
    /\ LastWasValidTick /\ last.before.followingCow # 0
    /\ LET f == last.before.followingCow
       IN  /\ last.before.cows[f].targetPosition # None
           /\ last.before.cows[f].targetPosition # last.before.person.position
           /\ person.position # last.before.person.position
           /\ cows[f].targetPosition = last.before.person.position

\* --------------------------------------------------------------- C19
\* Claim-side: the four cardinal unit directions times the normal speed of 20.
NormalVelocities == {Vec(-20, 0), Vec(20, 0), Vec(0, -20), Vec(0, 20)}

\* The behaviour step of a cow without target took velocity v0 to v1: it left
\* it, stopped a moving cow, or started a stopped one in a cardinal direction.
UnchangedOrToggled(v0, v1) ==
    \/ v1 = v0
    \/ v0 # VECTOR_ZERO /\ v1 = VECTOR_ZERO
    \/ v0 = VECTOR_ZERO /\ v1 \in NormalVelocities

\* C19: each tick of a cow with no target (the one of the sprite update, from
\* the velocity the cow had; the extra ones of the fence and play-area tests,
\* from the inverted velocity) leaves the velocity unchanged or toggles it.
C19_NormalToggle ==
    LastWasValidTick =>
        \A i \in Cows :
            last.cowsU[i].targetPosition = None =>
                /\ UnchangedOrToggled(last.before.cows[i].velocity, last.cowsU[i].velocity)
                /\ isOverlapping(fence, last.cowsU[i].position) =>
                      UnchangedOrToggled(Mult(last.cowsU[i].velocity, -1), last.cowsF[i].velocity)
                /\ ~isOverlapping(fence, last.cowsU[i].position) =>
                      last.cowsF[i].velocity = last.cowsU[i].velocity
                /\ OutsidePlayArea(last.cowsF[i].position) =>
                      UnchangedOrToggled(Mult(last.cowsF[i].velocity, -1), cows[i].velocity)
                /\ ~OutsidePlayArea(last.cowsF[i].position) =>
                      cows[i].velocity = last.cowsF[i].velocity

\* A moving cow's roll stops it in the sprite update.
C19_Witness ==
    /\ LastWasValidTick /\ last.rolled
    /\ \E i \in Cows :
          /\ last.cowsU[i].targetPosition = None
          /\ last.before.cows[i].velocity \in NormalVelocities
          /\ last.cowsU[i].velocity = VECTOR_ZERO
          /\ last.cowsU[i].position = last.before.cows[i].position

\* --------------------------------------------------------------- C20
\* Claim-side image: the direction by the sign of x, then of y, and the index
\* floor(elapsed * speed / 2.5) mod the sequence length; elapsed is in units
\* of 1/30 s, so the quotient is elapsed * speed * 2 / (30 * 5).
ClaimedDirection(v) ==
    CASE v.x < 0 -> "left"
      [] v.x > 0 -> "right"
      [] v.x = 0 /\ v.y < 0 -> "up"
      [] v.x = 0 /\ v.y > 0 -> "down"
ClaimedIndex(elapsed, speed, length) == ((elapsed * speed * 2) \div 150) % length

\* The speed of a velocity along one axis (velocities are never diagonal).
AxisSpeed(v) == Abs(v.x) + Abs(v.y)

\* The image of sprite now (after its tick) against sprite then (before it).
ImageAsClaimed(now, then, dt, length) ==
    /\ now.elapsedTime = then.elapsedTime + dt
    /\ AxisAligned(now.velocity)
    /\ IF now.velocity = VECTOR_ZERO
       THEN now.image = then.image
       ELSE now.image = [dir |-> ClaimedDirection(now.velocity),
                         idx |-> ClaimedIndex(now.elapsedTime, AxisSpeed(now.velocity), length)]

\* C20: in every tick of a cow or the person (the sprite update of a valid
\* tick, and a cow's extra ticks of the fence and play-area tests), a sprite
\* with velocity zero keeps the image it had, and one that moves gets the
\* image of its direction (x before y) at index floor(elapsed * speed / 2.5)
\* mod the length of the sequence (4 for a cow, 3 for the person), the elapsed
\* time being the one advanced by this tick's dt.
C20_ImageByDirectionAndDistance ==
    LastWasValidTick =>
        /\ ImageAsClaimed(last.personU, last.before.person, last.dt.val, 3)
        /\ person.image = last.personU.image
        /\ \A i \in Cows :
              /\ ImageAsClaimed(last.cowsU[i], last.before.cows[i], last.dt.val, 4)
              /\ isOverlapping(fence, last.cowsU[i].position) =>
                    ImageAsClaimed(last.cowsF[i], last.cowsU[i], last.dt.val, 4)
              /\ OutsidePlayArea(last.cowsF[i].position) =>
                    ImageAsClaimed(cows[i], last.cowsF[i], last.dt.val, 4)

\* The person stands still after a walk and keeps the walk's image, a frame
\* other than the first of its sequence.
C20_Witness ==
    /\ LastWasValidTick
    /\ last.personU.velocity = VECTOR_ZERO
    /\ last.personU.image = last.before.person.image
    /\ last.personU.image.dir # "down"
    /\ last.personU.image.idx # 0

\* --------------------------------------------------------------- C21
\* C21: the person starts at the origin and never overlaps the ring of the
\* fence in a state between calls, whatever keys were held and whatever the dt
\* of the ticks was.
C21_PersonNeverOnFence ==
    /\ ~isOverlapping(fence, person.position)
    /\ ~ClaimedOverlap(person.position)

\* The person walked onto the ring with a key held and ended the tick off it.
C21_Witness ==
    /\ LastWasValidTick /\ last.keys # {}
    /\ ClaimedOverlap(last.personU.position)
    /\ ~ClaimedOverlap(person.position)
    /\ person.position # VECTOR_ZERO

\* --------------------------------------------------------------- C22
\* The cows that hold a target.
CowsWithTarget == {i \in Cows : cows[i].targetPosition # None}

\* C22: at most one cow holds a target, and a cow that holds one is the cow
\* followed; a released cow and a cow never selected hold none, in the state
\* after every call and in the stages of a frame.
C22_OnlyFollowedCowHasTarget ==
    /\ Cardinality(CowsWithTarget) <= 1
    /\ \A i \in CowsWithTarget : followingCow = i
    /\ \A i \in Cows :
          /\ last.cowsU[i].targetPosition # None => last.before.followingCow = i
          /\ last.cowsF[i].targetPosition # None => last.before.followingCow = i

\* A second cow is followed and holds the target, while the cow released
\* before it still walks at the speed of its pursuit and holds none.
C22_Witness ==
    /\ followingCow # 0
    /\ CowsWithTarget = {followingCow}
    /\ \E j \in Cows \ {followingCow} :
          /\ AxisSpeed(cows[j].velocity) = 40
          /\ cows[j].targetPosition = None

\* --------------------------------------------------------------- C23
\* The last call was the tick that switched the description to success.
SwitchedToSuccess ==
    /\ LastWasValidTick
    /\ last.before.descriptionText = DescriptionInitial
    /\ InSuccessState

\* C23 (as stated): at the end of the tick that switches the description to
\* success every cow is strictly inside the inner bound of the ring, and
\* isOverlapping is false for every cow.
C23_AsStated ==
    SwitchedToSuccess =>
        \A i \in Cows :
            /\ InInnerBound(cows[i].position)
            /\ ~isOverlapping(fence, cows[i].position)

\* C23 (amended): at the end of that tick every cow is strictly inside the
\* fence's own rectangle (the fence's size, 400 x 400); a cow may be on the
\* ring, and then it is on the part of the ring inside that rectangle.
C23_InsideFenceRectangleAtSwitch ==
    SwitchedToSuccess =>
        \A i \in Cows :
            /\ StrictlyInside(cows[i].position, fence.position.x, fence.position.y, 400, 400)
            /\ isOverlapping(fence, cows[i].position) => ~InInnerBound(cows[i].position)

\* The description switches to success with a cow on the ring.
C23_Witness ==
    /\ SwitchedToSuccess
    /\ \E i \in Cows :
          /\ isOverlapping(fence, cows[i].position)
          /\ StrictlyInside(cows[i].position, fence.position.x, fence.position.y, 400, 400)

====
